---- MODULE Spec2Model ----
(***************************************************************************)
(* ShoreSquad (src/js/app.js): the weather acquisition pipeline of the     *)
(* ShoreSquadApp class -- loadRealWeatherData, getCurrentWeather,          *)
(* getWeatherForecast, fetchNeaData, the station resolution helpers, the   *)
(* fallback data and the cleanup-suitability classifiers.                  *)
(*                                                                         *)
(* JavaScript values are tagged records.  A number carries its value in    *)
(* tenths (31.4 is v = 314), so that Math.round is a real conversion.      *)
(***************************************************************************)
EXTENDS Integers, Sequences, FiniteSets, TLC

VARIABLES
  weatherData,    \* this.weatherData: NoData (null) or [current, forecast]
  cycles,         \* per activation of loadRealWeatherData: where it is suspended
  fetches,        \* per activation, per endpoint: the state of the fetch promise
  notified,       \* number of 'Using offline weather data' notifications shown
  currentLocation,\* this.currentLocation: NoLocation (null) or the position
  mockData,       \* where loadMockData is: "awaiting" its weather load, or "done"
  events,         \* this.events
  reloads,        \* number of reloads started by updateWeatherForLocation
  clock,          \* number of readings of the clock (new Date()) made so far
  data,           \* station resolution: the payload handed to the helpers
  station,        \* station resolution: findNearestStation's result
  stationValue,   \* station resolution: getStationValue's result
  sample,         \* suitability: the conditions handed to the classifiers
  verdict         \* suitability: the classifier's result

vars == <<weatherData, cycles, fetches, notified, currentLocation, mockData, events,
          reloads, clock, data, station, stationValue, sample, verdict>>

appVars  == <<weatherData, cycles, fetches, notified, currentLocation, mockData, events,
              reloads, clock>>
callerVars == <<currentLocation, mockData, events, reloads>>
pureVars == <<data, station, stationValue, sample, verdict>>

(***************************************************************************)
(* Bounds of the model.                                                    *)
(***************************************************************************)
MaxReadings == 3     \* longest readings list handed to the station helpers
MaxDays == 3         \* longest forecasts array of an upstream payload
MaxReloads == 1      \* reloads the user triggers by acquiring a position

(***************************************************************************)
(* JavaScript values.                                                      *)
(***************************************************************************)
Null      == [t |-> "null"]
Undefined == [t |-> "undefined"]
NaN       == [t |-> "nan"]
Unset     == [t |-> "unset"]          \* a model slot not written yet
Thrown    == [t |-> "TypeError"]      \* the helper threw instead of returning
Str(s)    == [t |-> "str", s |-> s]
Tenths(n) == [t |-> "num", v |-> n]   \* the number n/10
Num(n)    == Tenths(n * 10)           \* the whole number n

IsNumber(x) == x.t = "num"

\* JavaScript truthiness, as the || of getCurrentWeather reads it
Truthy(x) ==
  \/ x.t = "num" /\ x.v # 0
  \/ x.t = "str" /\ x.s # ""
  \/ x.t = "obj"

\* a || b
OrElse(a, b) == IF Truthy(a) THEN a ELSE b

\* Math.round: to the nearest integer, halves towards +Infinity; NaN for a
\* value that is no number (undefined)
MathRound(x) ==
  IF x.t = "num" THEN Tenths(((x.v + 5) \div 10) * 10)
  ELSE IF x.t = "null" THEN Num(0)
  ELSE NaN

\* x > n, x < n, ... for a whole number n: false when x is no number
Gt(x, n) == x.t = "num" /\ x.v > n * 10
Lt(x, n) == x.t = "num" /\ x.v < n * 10
Ge(x, n) == x.t = "num" /\ x.v >= n * 10
Le(x, n) == x.t = "num" /\ x.v <= n * 10

(***************************************************************************)
(* Upstream payloads.  A measurement payload is JSON; NoReadings is any    *)
(* JSON value without items[0].readings.                                   *)
(***************************************************************************)
NoReadings       == [t |-> "json", shape |-> "noreadings"]
Readings(rs)     == [t |-> "json", shape |-> "readings", readings |-> rs]
Reading(id, val) == [station_id |-> id, value |-> val]

\* !data?.items?.[0]?.readings is false
HasReadings(d) == d.shape = "readings"

PreferredStations == <<"S50", "S24", "S06">>
OtherStations     == {"S107", "S43"}
Stations          == {PreferredStations[i] : i \in 1..Len(PreferredStations)}
                       \cup OtherStations

\* the least element of a non-empty set of indices, 0 for the empty set
FirstIndex(S) == IF S = {} THEN 0 ELSE CHOOSE i \in S : \A j \in S : i <= j

\* readings.find(r => r.station_id === stationId): the index of the first
\* such reading, 0 for undefined
FindStation(rs, stationId) ==
  FirstIndex({i \in 1..Len(rs) : rs[i].station_id = stationId})

\* readings.find(r => r.value !== null)
FindAvailable(rs) ==
  FirstIndex({i \in 1..Len(rs) : rs[i].value # Null})

\* the loop of findNearestStation over preferredStations[i..]: the first
\* preferred station with a reading whose value is not null, "" for none
RECURSIVE PreferredFrom(_, _, _)
PreferredFrom(rs, preferred, i) ==
  IF i > Len(preferred) THEN ""
  ELSE LET j == FindStation(rs, preferred[i])
       IN IF j # 0 /\ rs[j].value # Null THEN preferred[i]
          ELSE PreferredFrom(rs, preferred, i + 1)

\* a plausible bug: the fallback branch first, ignoring the preferred list
findNearestStation_anyFirst(d, preferred) ==
  IF ~HasReadings(d) THEN preferred[1]
  ELSE LET k == FindAvailable(d.readings)
       IN IF k # 0 THEN d.readings[k].station_id ELSE preferred[1]

\* a plausible bug: no fallback to a non-preferred station
findNearestStation_noFallback(d, preferred) ==
  IF ~HasReadings(d) THEN preferred[1]
  ELSE LET p == PreferredFrom(d.readings, preferred, 1)
       IN IF p # "" THEN p ELSE preferred[1]

findNearestStation(d, preferred) ==
  IF ~HasReadings(d) THEN preferred[1]
  ELSE LET p == PreferredFrom(d.readings, preferred, 1)
           k == FindAvailable(d.readings)
       IN IF p # "" THEN p
          ELSE IF k # 0 /\ d.readings[k].station_id # ""
               THEN d.readings[k].station_id
               ELSE preferred[1]

\* a plausible bug: reading.value without the optional chaining
getStationValue_noChaining(d, stationId) ==
  IF ~HasReadings(d) THEN Null
  ELSE LET j == FindStation(d.readings, stationId)
       IN IF j = 0 THEN Thrown ELSE d.readings[j].value

getStationValue(d, stationId) ==
  IF ~HasReadings(d) THEN Null
  ELSE LET j == FindStation(d.readings, stationId)
       IN IF j = 0 THEN Undefined ELSE d.readings[j].value

(***************************************************************************)
(* Forecast texts are sequences of characters, so that toLowerCase and     *)
(* includes are computed, not assumed.                                     *)
(***************************************************************************)
UpperToLower ==
  [A |-> "a", B |-> "b", C |-> "c", D |-> "d", E |-> "e", F |-> "f", G |-> "g",
   H |-> "h", I |-> "i", J |-> "j", K |-> "k", L |-> "l", M |-> "m", N |-> "n",
   O |-> "o", P |-> "p", Q |-> "q", R |-> "r", S |-> "s", T |-> "t", U |-> "u",
   V |-> "v", W |-> "w", X |-> "x", Y |-> "y", Z |-> "z"]

\* String.prototype.toLowerCase
toLowerCase(text) ==
  [i \in 1..Len(text) |->
     IF text[i] \in DOMAIN UpperToLower THEN UpperToLower[text[i]] ELSE text[i]]

\* String.prototype.includes: pat occurs in text as a substring
includes(text, pat) ==
  \E i \in 1..(Len(text) - Len(pat) + 1) : SubSeq(text, i, i + Len(pat) - 1) = pat

kwRain      == <<"r", "a", "i", "n">>
kwShower    == <<"s", "h", "o", "w", "e", "r">>
kwThundery  == <<"t", "h", "u", "n", "d", "e", "r", "y">>
kwHeavyRain == <<"h", "e", "a", "v", "y", " ", "r", "a", "i", "n">>

txtFair            == <<"F", "a", "i", "r">>
txtFairWarm        == <<"F", "a", "i", "r", " ", "&", " ", "W", "a", "r", "m">>
txtPartlyCloudy    == <<"P", "a", "r", "t", "l", "y", " ", "C", "l", "o", "u", "d", "y">>
txtCloudy          == <<"C", "l", "o", "u", "d", "y">>
txtLightRain       == <<"L", "i", "g", "h", "t", " ", "R", "a", "i", "n">>
txtShowers         == <<"S", "h", "o", "w", "e", "r", "s">>
txtHeavyRain       == <<"H", "e", "a", "v", "y", " ", "R", "a", "i", "n">>
txtThunderyShowers == <<"T", "h", "u", "n", "d", "e", "r", "y", " ",
                        "S", "h", "o", "w", "e", "r", "s">>
txtHazy            == <<"H", "a", "z", "y">>
txtOvercast        == <<"O", "v", "e", "r", "c", "a", "s", "t">>
txtMist            == <<"M", "i", "s", "t">>
txtWindy           == <<"W", "i", "n", "d", "y">>
txtUpperThundery   == <<"T", "H", "U", "N", "D", "E", "R", "Y", " ",
                        "S", "H", "O", "W", "E", "R", "S">>
txtEmpty           == << >>

ForecastTexts ==
  {txtFair, txtFairWarm, txtPartlyCloudy, txtCloudy, txtLightRain, txtShowers,
   txtHeavyRain, txtThunderyShowers, txtHazy, txtOvercast, txtMist, txtWindy,
   txtUpperThundery, txtEmpty}

(***************************************************************************)
(* The suitability classifiers.                                            *)
(***************************************************************************)
\* a plausible bug: the humidity rule left out of the ladder
getCleanupStatus_noHumidityRule(weather) ==
  LET temp      == weather.temperature
      humidity  == weather.humidity
      windSpeed == weather.windSpeed
      uvIndex   == weather.uvIndex
  IN IF Gt(temp, 35) THEN
       [level |-> "poor", message |-> "Too hot for cleanup! Stay hydrated"]
     ELSE IF Gt(uvIndex, 9) THEN
       [level |-> "poor", message |-> "Extreme UV - avoid midday cleanup"]
     ELSE IF Gt(windSpeed, 25) THEN
       [level |-> "poor", message |-> "Too windy - wait for calmer weather"]
     ELSE IF Lt(temp, 20) THEN
       [level |-> "ok", message |-> "Cool weather - dress warmly!"]
     ELSE IF Ge(temp, 24) /\ Le(temp, 32) /\ Lt(windSpeed, 20) /\ Lt(humidity, 85) THEN
       [level |-> "good", message |-> "Perfect conditions for cleanup!"]
     ELSE
       [level |-> "good", message |-> "Good cleanup weather"]

\* getCleanupStatus: { level, message } for the current conditions
getCleanupStatus(weather) ==
  LET temp      == weather.temperature
      humidity  == weather.humidity
      windSpeed == weather.windSpeed
      uvIndex   == weather.uvIndex
  IN IF Gt(temp, 35) THEN
       [level |-> "poor", message |-> "Too hot for cleanup! Stay hydrated"]
     ELSE IF Gt(uvIndex, 9) THEN
       [level |-> "poor", message |-> "Extreme UV - avoid midday cleanup"]
     ELSE IF Gt(windSpeed, 25) THEN
       [level |-> "poor", message |-> "Too windy - wait for calmer weather"]
     ELSE IF Lt(temp, 20) THEN
       [level |-> "ok", message |-> "Cool weather - dress warmly!"]
     ELSE IF Gt(humidity, 90) THEN
       [level |-> "ok", message |-> "Very humid - take breaks often"]
     ELSE IF Ge(temp, 24) /\ Le(temp, 32) /\ Lt(windSpeed, 20) /\ Lt(humidity, 85) THEN
       [level |-> "good", message |-> "Perfect conditions for cleanup!"]
     ELSE
       [level |-> "good", message |-> "Good cleanup weather"]

\* a plausible bug: the rain/shower rule tested before the thunder rule
getCleanupStatusFromTemp_showerFirst(temp, forecast) ==
  LET text == toLowerCase(forecast)
  IN IF includes(text, kwRain) \/ includes(text, kwShower) THEN "ok"
     ELSE IF includes(text, kwThundery) \/ includes(text, kwHeavyRain) THEN "poor"
     ELSE IF Gt(temp, 35) THEN "poor"
     ELSE IF Ge(temp, 25) /\ Le(temp, 32) /\ ~includes(text, kwRain) THEN "perfect"
     ELSE "good"

\* a plausible bug: the rain rule tested before the too-hot rule
getCleanupStatusFromTemp_rainFirst(temp, forecast) ==
  LET text == toLowerCase(forecast)
  IN IF includes(text, kwThundery) \/ includes(text, kwHeavyRain) THEN "poor"
     ELSE IF includes(text, kwRain) \/ includes(text, kwShower) THEN "ok"
     ELSE IF Gt(temp, 35) THEN "poor"
     ELSE IF Ge(temp, 25) /\ Le(temp, 32) /\ ~includes(text, kwRain) THEN "perfect"
     ELSE "good"

\* getCleanupStatusFromTemp: the level of a forecast day
getCleanupStatusFromTemp(temp, forecast) ==
  LET text == toLowerCase(forecast)
  IN IF includes(text, kwThundery) \/ includes(text, kwHeavyRain) THEN "poor"
     ELSE IF Gt(temp, 35) THEN "poor"
     ELSE IF includes(text, kwRain) \/ includes(text, kwShower) THEN "ok"
     ELSE IF Ge(temp, 25) /\ Le(temp, 32) /\ ~includes(text, kwRain) THEN "perfect"
     ELSE "good"

\* getStatusText: the displayed name of a level
getStatusText(status) ==
  CASE status = "perfect" -> "Perfect"
    [] status = "good"    -> "Good"
    [] status = "ok"      -> "Okay"
    [] status = "poor"    -> "Poor"
    [] OTHER              -> "Unknown"

kwCloudy       == <<"c", "l", "o", "u", "d", "y">>
kwOvercast     == <<"o", "v", "e", "r", "c", "a", "s", "t">>
kwPartlyCloudy == <<"p", "a", "r", "t", "l", "y", " ", "c", "l", "o", "u", "d", "y">>
kwFair         == <<"f", "a", "i", "r">>
kwHazy         == <<"h", "a", "z", "y">>
kwMist         == <<"m", "i", "s", "t">>

\* a plausible bug: the keywords matched against the text as it came, not
\* against its lower-case form
getWeatherIconFromForecast_caseSensitive(forecast) ==
  LET text == forecast
  IN IF includes(text, kwRain) \/ includes(text, kwShower)
          \/ includes(text, kwThundery) THEN "rain"
     ELSE IF includes(text, kwCloudy) \/ includes(text, kwOvercast) THEN "cloud"
     ELSE IF includes(text, kwPartlyCloudy) \/ includes(text, kwFair) THEN "partly"
     ELSE IF includes(text, kwHazy) \/ includes(text, kwMist) THEN "fog"
     ELSE "sun"

\* getWeatherIconFromForecast: the symbol of a forecast text.  Symbols are
\* named: "rain" is the rain cloud, "cloud" the cloud, "partly" the sun
\* behind a cloud, "fog" the fog, "sun" the sun.
getWeatherIconFromForecast(forecast) ==
  LET text == toLowerCase(forecast)
  IN IF includes(text, kwRain) \/ includes(text, kwShower)
          \/ includes(text, kwThundery) THEN "rain"
     ELSE IF includes(text, kwCloudy) \/ includes(text, kwOvercast) THEN "cloud"
     ELSE IF includes(text, kwPartlyCloudy) \/ includes(text, kwFair) THEN "partly"
     ELSE IF includes(text, kwHazy) \/ includes(text, kwMist) THEN "fog"
     ELSE "sun"

\* a plausible bug: the humidity test moved to the head of the ladder
getWeatherDescription_humidFirst(temp, humidity, windSpeed) ==
  IF Gt(humidity, 80) THEN "Humid"
  ELSE IF Gt(temp, 32) THEN "Hot"
  ELSE IF Lt(temp, 24) THEN "Cool"
  ELSE IF Gt(windSpeed, 20) THEN "Windy"
  ELSE "Pleasant"

\* getWeatherDescription: the description of the current conditions
getWeatherDescription(temp, humidity, windSpeed) ==
  IF Gt(temp, 32) THEN "Hot"
  ELSE IF Lt(temp, 24) THEN "Cool"
  ELSE IF Gt(humidity, 80) THEN "Humid"
  ELSE IF Gt(windSpeed, 20) THEN "Windy"
  ELSE "Pleasant"

(***************************************************************************)
(* The application state after construction: the constructor runs init,    *)
(* init runs loadMockData, loadMockData runs loadRealWeatherData, which    *)
(* runs getCurrentWeather up to its await: weatherData is still null and   *)
(* the five measurement fetches of the initial load are in flight.         *)
(***************************************************************************)
NoData     == [t |-> "null"]
NoLocation == [t |-> "null"]

CycleIds  == {"initial", "reload"}
Endpoints == <<"air-temperature", "relative-humidity", "wind-speed",
               "wind-direction", "uv-index">>
ForecastEndpoint == "4-day-weather-forecast"
AllEndpoints == {Endpoints[i] : i \in 1..Len(Endpoints)} \cup {ForecastEndpoint}

Idle    == [st |-> "idle"]
Pending == [st |-> "pending"]
Stalled == [st |-> "stalled"]       \* in flight, and the server never answers
Resolved(body) == [st |-> "resolved", body |-> body]
Rejected(err)  == [st |-> "rejected", error |-> err]

NotStarted == [pc |-> "idle"]

\* a plausible bug: the events assigned before the weather load is awaited
AppInit_eventsFirst ==
  /\ weatherData = NoData
  /\ cycles = [c \in CycleIds |->
                 IF c = "initial" THEN [pc |-> "current"] ELSE NotStarted]
  /\ fetches = [c \in CycleIds |-> [e \in AllEndpoints |->
                 IF c = "initial" /\ e # ForecastEndpoint THEN Pending ELSE Idle]]
  /\ notified = 0
  /\ currentLocation = NoLocation
  /\ mockData = "awaiting"
  /\ events = << [id |-> 1, participants |-> 24, userJoined |-> FALSE],
                 [id |-> 2, participants |-> 32, userJoined |-> TRUE],
                 [id |-> 3, participants |-> 18, userJoined |-> FALSE],
                 [id |-> 4, participants |-> 29, userJoined |-> FALSE] >>
  /\ reloads = 0
  /\ clock = 0

AppInit ==
  /\ weatherData = NoData
  /\ cycles = [c \in CycleIds |->
                 IF c = "initial" THEN [pc |-> "current"] ELSE NotStarted]
  /\ fetches = [c \in CycleIds |-> [e \in AllEndpoints |->
                 IF c = "initial" /\ e # ForecastEndpoint THEN Pending ELSE Idle]]
  /\ notified = 0
  /\ currentLocation = NoLocation
  /\ mockData = "awaiting"
  /\ events = << >>
  /\ reloads = 0
  /\ clock = 0

PureIdle ==
  /\ data = NoReadings
  /\ station = ""
  /\ stationValue = Unset
  /\ sample = Unset
  /\ verdict = Unset

(***************************************************************************)
(* Station resolution as getCurrentWeather uses it: findNearestStation,    *)
(* then getStationValue for the station it returned.  The inputs are the   *)
(* payloads without readings and every readings list of at most            *)
(* MaxReadings readings with one reading per station (the upstream         *)
(* source reports each station once per measurement kind).                 *)
(***************************************************************************)
ReadingValues == {Null, Tenths(0), Tenths(275), Tenths(314)}
ReadingSet    == [station_id : Stations, value : ReadingValues]

OnePerStation(rs) ==
  \A i, j \in 1..Len(rs) : rs[i].station_id = rs[j].station_id => i = j

ReadingLists ==
  {rs \in UNION {[1..n -> ReadingSet] : n \in 0..MaxReadings} : OnePerStation(rs)}

ResolveInputs == {NoReadings} \cup {Readings(rs) : rs \in ReadingLists}

ResolveInit ==
  /\ AppInit
  /\ data \in ResolveInputs
  /\ station = ""
  /\ stationValue = Unset
  /\ sample = Unset
  /\ verdict = Unset

\* const eastStation = this.findNearestStation(tempData, ['S50', 'S24', 'S06'])
FindNearestStation ==
  /\ station' = findNearestStation(data, PreferredStations)
  /\ UNCHANGED <<appVars, data, stationValue, sample, verdict>>

\* this.getStationValue(tempData, eastStation)
GetStationValue ==
  /\ station # ""
  /\ stationValue' = getStationValue(data, station)
  /\ UNCHANGED <<appVars, data, station, sample, verdict>>

ResolveNext == FindNearestStation \/ GetStationValue

ResolveSpec == ResolveInit /\ [][ResolveNext]_vars

\* the readings of the payload under resolution
Rs == IF HasReadings(data) THEN data.readings ELSE <<>>

IsPreferred(id) == \E i \in 1..Len(PreferredStations) : PreferredStations[i] = id

\* indices into PreferredStations of the stations that report a non-null value
PreferredReporting ==
  {i \in 1..Len(PreferredStations) :
     \E j \in 1..Len(Rs) : /\ Rs[j].station_id = PreferredStations[i]
                           /\ Rs[j].value # Null}

\* indices into the readings whose value is not null
Reporting == {j \in 1..Len(Rs) : Rs[j].value # Null}

\* C5: when some preferred station has a non-null value, resolution yields the
\* value of the first station in preferred-list order that has one, and the
\* station used is a preferred one, wherever non-preferred readings stand.
C5_PreferredStationWins ==
  (stationValue # Unset /\ PreferredReporting # {}) =>
    LET i == FirstIndex(PreferredReporting)
        j == CHOOSE k \in 1..Len(Rs) : Rs[k].station_id = PreferredStations[i]
    IN /\ station = PreferredStations[i]
       /\ stationValue = Rs[j].value
       /\ IsPreferred(station)

\* C5's case: a non-preferred station with a value stands first, S50 reports
\* null and a later preferred station supplies the value.
C5_Witness ==
  /\ stationValue # Unset
  /\ Len(Rs) = 3
  /\ ~IsPreferred(Rs[1].station_id) /\ Rs[1].value = Tenths(275)
  /\ Rs[2].station_id = "S50" /\ Rs[2].value = Null
  /\ Rs[3].station_id = "S06" /\ Rs[3].value = Tenths(314)
  /\ stationValue = Tenths(314)

\* C6: when no preferred station has a non-null value but some other station
\* does, resolution yields the first non-null value in input order.
C6_FirstAvailable ==
  (stationValue # Unset /\ PreferredReporting = {} /\ Reporting # {}) =>
    /\ stationValue = Rs[FirstIndex(Reporting)].value
    /\ station = Rs[FirstIndex(Reporting)].station_id

\* C6's case: a preferred station reporting null stands first, then two
\* non-preferred stations with different values.
C6_Witness ==
  /\ stationValue # Unset
  /\ Len(Rs) = 3
  /\ Rs[1].station_id = "S50" /\ Rs[1].value = Null
  /\ Rs[2].station_id = "S43" /\ Rs[2].value = Tenths(275)
  /\ Rs[3].station_id = "S107" /\ Rs[3].value = Tenths(314)
  /\ stationValue = Tenths(275)

\* C7: over an empty readings list resolution returns no usable value (null
\* or undefined, nothing thrown), so that the caller's `|| 28` applies the
\* default, and a repeated call returns the same.
C7_EmptyIsNoData ==
  /\ [](( HasReadings(data) /\ Rs = <<>> /\ stationValue # Unset) =>
          /\ stationValue \in {Null, Undefined}
          /\ OrElse(stationValue, Num(28)) = Num(28))
  /\ [][(HasReadings(data) /\ Rs = <<>> /\ stationValue # Unset)
          => stationValue' = stationValue]_vars

\* C7's case: the helpers have run on a payload whose readings list is empty.
C7_Witness ==
  /\ HasReadings(data) /\ Rs = <<>>
  /\ station = "S50"
  /\ stationValue = Undefined

(***************************************************************************)
(* The classifiers applied to every combination of sampled conditions.     *)
(***************************************************************************)
Temperatures == 17..38
Humidities   == {50, 70, 84, 85, 90, 91, 92}
WindSpeeds   == {5, 10, 19, 20, 25, 26}
UvIndexes    == {0, 6, 9, 10}

ClassifyInit ==
  /\ AppInit
  /\ data = NoReadings
  /\ station = ""
  /\ stationValue = Unset
  /\ sample \in {[temperature |-> Num(t), humidity |-> Num(h), windSpeed |-> Num(w),
                  uvIndex |-> Num(u), forecast |-> f] :
                   t \in Temperatures, h \in Humidities, w \in WindSpeeds,
                   u \in UvIndexes, f \in ForecastTexts}
  /\ verdict = Unset

\* renderWeather: const cleanupStatus = this.getCleanupStatus(current)
GetCleanupStatus ==
  /\ verdict' = [by |-> "getCleanupStatus",
                 level |-> getCleanupStatus(sample).level,
                 message |-> getCleanupStatus(sample).message]
  /\ UNCHANGED <<appVars, data, station, stationValue, sample>>

\* getWeatherForecast: status: this.getCleanupStatusFromTemp(avgTemp, forecast.forecast)
GetCleanupStatusFromTemp ==
  /\ verdict' = [by |-> "getCleanupStatusFromTemp",
                 level |-> getCleanupStatusFromTemp(sample.temperature, sample.forecast),
                 message |-> ""]
  /\ UNCHANGED <<appVars, data, station, stationValue, sample>>

\* getWeatherForecast: condition: this.getWeatherIconFromForecast(forecast.forecast)
GetWeatherIconFromForecast ==
  /\ verdict' = [by |-> "getWeatherIconFromForecast",
                 condition |-> getWeatherIconFromForecast(sample.forecast)]
  /\ UNCHANGED <<appVars, data, station, stationValue, sample>>

\* getCurrentWeather: description: this.getWeatherDescription(temperature, humidity, windSpeed)
GetWeatherDescription ==
  /\ verdict' = [by |-> "getWeatherDescription",
                 description |-> getWeatherDescription(sample.temperature,
                                                       sample.humidity,
                                                       sample.windSpeed)]
  /\ UNCHANGED <<appVars, data, station, stationValue, sample>>

ClassifyNext ==
  \/ GetCleanupStatus
  \/ GetCleanupStatusFromTemp
  \/ GetWeatherIconFromForecast
  \/ GetWeatherDescription

\* the verdict is a suitability level, of either classifier
Classified ==
  verdict # Unset /\ verdict.by \in {"getCleanupStatus", "getCleanupStatusFromTemp"}

ClassifySpec == ClassifyInit /\ [][ClassifyNext]_vars

\* The ladder of the specification without forecast text: rules 1, 2, 3, 5, 6,
\* 8, 9, the first match winning.
LadderWithoutText(w) ==
  IF Gt(w.temperature, 35) THEN "Poor"
  ELSE IF Gt(w.uvIndex, 9) THEN "Poor"
  ELSE IF Gt(w.windSpeed, 25) THEN "Poor"
  ELSE IF Lt(w.temperature, 20) THEN "Okay"
  ELSE IF Gt(w.humidity, 90) THEN "Okay"
  ELSE IF /\ Ge(w.temperature, 24) /\ Le(w.temperature, 32)
          /\ Lt(w.windSpeed, 20) /\ Lt(w.humidity, 85) THEN "Perfect"
  ELSE "Good"

\* C9: the level getCleanupStatus returns is the level of the ladder (rules
\* 1, 2, 3, 5, 6, 8, 9) with the four levels Perfect, Good, Okay, Poor; 28
\* degrees, 70 %, 10 km/h, UV 6 is Perfect.
C9_LadderLevels ==
  (verdict # Unset /\ verdict.by = "getCleanupStatus") =>
     getStatusText(verdict.level) = LadderWithoutText(sample)

\* C10: above 35 degrees the level is poor, for both classifiers and whatever
\* the humidity, wind, UV index and forecast text.
C10_TooHotIsPoor ==
  (Classified /\ Gt(sample.temperature, 35)) => verdict.level = "poor"

\* C10's case: the forecast-day classifier at 36 degrees on a text that the
\* rain rule would otherwise make Okay.
C10_Witness ==
  /\ verdict # Unset
  /\ verdict.by = "getCleanupStatusFromTemp"
  /\ sample.temperature = Num(36)
  /\ sample.forecast = txtLightRain
  /\ verdict.level = "poor"

\* the conditions of w trigger none of the Poor rules of getCleanupStatus
NoPoorRule(w) ==
  Le(w.temperature, 35) /\ Le(w.uvIndex, 9) /\ Le(w.windSpeed, 25)

\* the keyword classes of a forecast text, matched on its lower-case form
HasThunder(forecast) ==
  LET text == toLowerCase(forecast)
  IN includes(text, kwThundery) \/ includes(text, kwHeavyRain)

HasRain(forecast) ==
  LET text == toLowerCase(forecast)
  IN includes(text, kwRain) \/ includes(text, kwShower)

\* C11: with humidity above 90 and no Poor rule applying, getCleanupStatus
\* returns the Okay level, also when the temperature is in 24..32 and the
\* wind below 20: the humidity rule comes before the Perfect rule.
C11_HumidIsOkay ==
  (/\ verdict # Unset
   /\ verdict.by = "getCleanupStatus"
   /\ Gt(sample.humidity, 90)
   /\ NoPoorRule(sample)) => getStatusText(verdict.level) = "Okay"

\* C11's case: 27 degrees, 92 %, 5 km/h, classified by the humidity rule.
C11_Witness ==
  /\ verdict # Unset
  /\ verdict.by = "getCleanupStatus"
  /\ sample.temperature = Num(27)
  /\ sample.humidity = Num(92)
  /\ sample.windSpeed = Num(5)
  /\ sample.uvIndex = Num(6)
  /\ verdict.level = "ok"
  /\ verdict.message = "Very humid - take breaks often"

\* C12: a forecast day whose text has a thunder or heavy-rain keyword is
\* Poor whatever its temperature, never Okay by the rain/shower rule and
\* never Perfect.
C12_ThunderIsPoor ==
  (/\ verdict # Unset
   /\ verdict.by = "getCleanupStatusFromTemp"
   /\ HasThunder(sample.forecast)) => getStatusText(verdict.level) = "Poor"

\* C12's case: 'Thundery Showers' at 26 degrees, which the shower rule would
\* make Okay and the temperature Perfect.
C12_Witness ==
  /\ verdict # Unset
  /\ verdict.by = "getCleanupStatusFromTemp"
  /\ sample.forecast = txtThunderyShowers
  /\ sample.temperature = Num(26)
  /\ verdict.level = "poor"

\* C13: below 20 degrees with no Poor rule applying the level is Okay, for
\* getCleanupStatus and for getCleanupStatusFromTemp on a text without a
\* rain, shower or thunder keyword.
C13_CoolIsOkay ==
  /\ (/\ verdict # Unset
      /\ verdict.by = "getCleanupStatus"
      /\ Lt(sample.temperature, 20)
      /\ NoPoorRule(sample)) => getStatusText(verdict.level) = "Okay"
  /\ (/\ verdict # Unset
      /\ verdict.by = "getCleanupStatusFromTemp"
      /\ Lt(sample.temperature, 20)
      /\ ~HasThunder(sample.forecast)
      /\ ~HasRain(sample.forecast)) => getStatusText(verdict.level) = "Okay"

\* The symbol ladder as the specification words it: thunder or heavy rain is
\* the storm symbol, rain or shower the rain symbol, cloudy or overcast the
\* cloud, partly cloudy or fair the partial cloud, haze or mist the haze
\* symbol, anything else the clear symbol.
SymbolLadder(forecast) ==
  LET text == toLowerCase(forecast)
  IN IF includes(text, kwThundery) \/ includes(text, kwHeavyRain) THEN "storm"
     ELSE IF includes(text, kwRain) \/ includes(text, kwShower) THEN "rain"
     ELSE IF includes(text, kwCloudy) \/ includes(text, kwOvercast) THEN "cloud"
     ELSE IF includes(text, kwPartlyCloudy) \/ includes(text, kwFair) THEN "partly"
     ELSE IF includes(text, kwHazy) \/ includes(text, kwMist) THEN "fog"
     ELSE "sun"

\* C15 as stated: getWeatherIconFromForecast returns the symbol of the
\* ladder above, with a storm symbol that is not the rain symbol.
C15_SymbolLadderWithStorm ==
  (verdict # Unset /\ verdict.by = "getWeatherIconFromForecast") =>
     verdict.condition = SymbolLadder(sample.forecast)

\* C15 as amended: thunder, rain and shower texts all get the rain symbol
\* (there is no storm symbol); the rest of the ladder is as stated, first
\* match winning, on the lower-case form of the text.
C15_SymbolLadderRainOnly ==
  (verdict # Unset /\ verdict.by = "getWeatherIconFromForecast") =>
     verdict.condition =
        (IF SymbolLadder(sample.forecast) = "storm" THEN "rain"
         ELSE SymbolLadder(sample.forecast))

\* C15's case: an upper-case thunder text, which gets the rain symbol.
C15_Witness ==
  /\ verdict # Unset
  /\ verdict.by = "getWeatherIconFromForecast"
  /\ sample.forecast = txtUpperThundery
  /\ verdict.condition = "rain"

\* C16: a text containing 'partly cloudy' gets the partial-cloud symbol,
\* not the cloud symbol of the cloudy/overcast class.
C16_PartlyCloudyIsPartial ==
  (/\ verdict # Unset
   /\ verdict.by = "getWeatherIconFromForecast"
   /\ includes(toLowerCase(sample.forecast), kwPartlyCloudy)) =>
     verdict.condition = "partly"

\* C20: a forecast day without rain, shower or thunder keyword and with a
\* temperature in 24..32, both ends included, is classified perfect.
C20_PerfectRange ==
  (/\ verdict # Unset
   /\ verdict.by = "getCleanupStatusFromTemp"
   /\ ~HasThunder(sample.forecast)
   /\ ~HasRain(sample.forecast)
   /\ Ge(sample.temperature, 24)
   /\ Le(sample.temperature, 32)) => verdict.level = "perfect"

(***************************************************************************)
(* Derivations of the current-conditions record and of a forecast day.     *)
(* Symbols are named: "rain" is the rain cloud, "partly" the sun behind a  *)
(* cloud, "sun" the sun, "wind" the gust, "cloud" the cloud, "fog" the fog.*)
(***************************************************************************)
getWeatherIcon(temp, humidity, windSpeed) ==
  IF Gt(humidity, 80) /\ Lt(temp, 26) THEN "rain"
  ELSE IF Gt(humidity, 70) THEN "partly"
  ELSE IF Gt(temp, 32) THEN "sun"
  ELSE IF Gt(windSpeed, 20) THEN "wind"
  ELSE "sun"

\* a plausible bug: the label taken from the state of the application (the
\* position, once acquired) and not from the responses alone
getCurrentWeather_labelByPosition(b) ==
  LET tempData      == b["air-temperature"]
      humidityData  == b["relative-humidity"]
      windSpeedData == b["wind-speed"]
      windDirData   == b["wind-direction"]
      uvData        == b["uv-index"]
      eastStation   == findNearestStation(tempData, PreferredStations)
      temperature   == OrElse(getStationValue(tempData, eastStation), Num(28))
      humidity      == OrElse(getStationValue(humidityData, eastStation), Num(70))
      windSpeed     == OrElse(getStationValue(windSpeedData, eastStation), Num(12))
      windDir       == OrElse(getStationValue(windDirData, eastStation), Str("NE"))
      uvIndex       == OrElse(getStationValue(uvData, eastStation), Num(6))
  IN [temperature   |-> MathRound(temperature),
      humidity      |-> MathRound(humidity),
      windSpeed     |-> MathRound(windSpeed),
      windDirection |-> windDir,
      uvIndex       |-> MathRound(uvIndex),
      condition     |-> getWeatherIcon(temperature, humidity, windSpeed),
      description   |-> getWeatherDescription(temperature, humidity, windSpeed),
      location      |-> IF currentLocation = NoLocation THEN "Pasir Ris Area"
                        ELSE "Your Location",
      timestamp     |-> clock]

\* a plausible bug: a missing reading is rounded as it is, without a default
getCurrentWeather_noDefaults(b) ==
  LET tempData      == b["air-temperature"]
      humidityData  == b["relative-humidity"]
      windSpeedData == b["wind-speed"]
      windDirData   == b["wind-direction"]
      uvData        == b["uv-index"]
      eastStation   == findNearestStation(tempData, PreferredStations)
      temperature   == getStationValue(tempData, eastStation)
      humidity      == getStationValue(humidityData, eastStation)
      windSpeed     == getStationValue(windSpeedData, eastStation)
      windDir       == getStationValue(windDirData, eastStation)
      uvIndex       == getStationValue(uvData, eastStation)
  IN [temperature   |-> MathRound(temperature),
      humidity      |-> MathRound(humidity),
      windSpeed     |-> MathRound(windSpeed),
      windDirection |-> windDir,
      uvIndex       |-> MathRound(uvIndex),
      condition     |-> getWeatherIcon(temperature, humidity, windSpeed),
      description   |-> getWeatherDescription(temperature, humidity, windSpeed),
      location      |-> "Pasir Ris Area",
      timestamp     |-> clock]

\* a plausible bug: a payload without readings is thrown on, as
\* getWeatherForecast does for a payload without forecasts
getCurrentWeather_throwOnMalformed(b) ==
  IF \E e \in DOMAIN b : ~HasReadings(b[e]) THEN Thrown
  ELSE getCurrentWeather_noDefaults(b)

\* a plausible bug: a kind whose stations all report null is thrown on, as a
\* failed fetch is
getCurrentWeather_throwOnNoStationData(b) ==
  IF \E e \in DOMAIN b :
        /\ HasReadings(b[e])
        /\ Len(b[e].readings) > 0
        /\ \A i \in 1..Len(b[e].readings) : b[e].readings[i].value = Null
  THEN Thrown
  ELSE
  LET tempData      == b["air-temperature"]
      humidityData  == b["relative-humidity"]
      windSpeedData == b["wind-speed"]
      windDirData   == b["wind-direction"]
      uvData        == b["uv-index"]
      eastStation   == findNearestStation(tempData, PreferredStations)
      temperature   == OrElse(getStationValue(tempData, eastStation), Num(28))
      humidity      == OrElse(getStationValue(humidityData, eastStation), Num(70))
      windSpeed     == OrElse(getStationValue(windSpeedData, eastStation), Num(12))
      windDir       == OrElse(getStationValue(windDirData, eastStation), Str("NE"))
      uvIndex       == OrElse(getStationValue(uvData, eastStation), Num(6))
  IN [temperature   |-> MathRound(temperature),
      humidity      |-> MathRound(humidity),
      windSpeed     |-> MathRound(windSpeed),
      windDirection |-> windDir,
      uvIndex       |-> MathRound(uvIndex),
      condition     |-> getWeatherIcon(temperature, humidity, windSpeed),
      description   |-> getWeatherDescription(temperature, humidity, windSpeed),
      location      |-> "Pasir Ris Area",
      timestamp     |-> clock]

\* getCurrentWeather after its await: the record built from the five
\* payloads (b maps each endpoint to the JSON its fetch resolved with).  The
\* timestamp is the reading of the clock, numbered in the order of readings.
getCurrentWeather(b) ==
  LET tempData      == b["air-temperature"]
      humidityData  == b["relative-humidity"]
      windSpeedData == b["wind-speed"]
      windDirData   == b["wind-direction"]
      uvData        == b["uv-index"]
      eastStation   == findNearestStation(tempData, PreferredStations)
      temperature   == OrElse(getStationValue(tempData, eastStation), Num(28))
      humidity      == OrElse(getStationValue(humidityData, eastStation), Num(70))
      windSpeed     == OrElse(getStationValue(windSpeedData, eastStation), Num(12))
      windDir       == OrElse(getStationValue(windDirData, eastStation), Str("NE"))
      uvIndex       == OrElse(getStationValue(uvData, eastStation), Num(6))
  IN [temperature   |-> MathRound(temperature),
      humidity      |-> MathRound(humidity),
      windSpeed     |-> MathRound(windSpeed),
      windDirection |-> windDir,
      uvIndex       |-> MathRound(uvIndex),
      condition     |-> getWeatherIcon(temperature, humidity, windSpeed),
      description   |-> getWeatherDescription(temperature, humidity, windSpeed),
      location      |-> "Pasir Ris Area",
      timestamp     |-> clock]

\* generateFallbackForecast
generateFallbackForecast ==
  LET days       == <<"Today", "Tomorrow", "Wednesday", "Thursday", "Friday",
                      "Saturday", "Sunday">>
      conditions == <<"sun", "partly", "rain", "sun", "partly", "sun", "partly">>
      temps      == <<28, 26, 24, 30, 27, 29, 25>>
      statuses   == <<"perfect", "good", "ok", "perfect", "good", "perfect", "good">>
  IN [i \in 1..Len(days) |->
        [day         |-> days[i],
         temp        |-> Num(temps[i]),
         tempHigh    |-> Num(temps[i] + 2),
         tempLow     |-> Num(temps[i] - 3),
         condition   |-> conditions[i],
         description |-> "Mixed conditions",
         status      |-> statuses[i]]]

\* a plausible bug: the offline record built without its offline mark
loadFallbackWeatherData_unmarked ==
  [current  |-> [temperature   |-> Num(28),
                 humidity      |-> Num(70),
                 windSpeed     |-> Num(12),
                 windDirection |-> Str("NE"),
                 uvIndex       |-> Num(6),
                 condition     |-> "partly",
                 description   |-> "Partly Cloudy",
                 location      |-> "Pasir Ris Area",
                 timestamp     |-> clock],
   forecast |-> generateFallbackForecast]

\* a plausible bug: the offline record installed without forecast days
loadFallbackWeatherData_noForecast ==
  [current  |-> [temperature   |-> Num(28),
                 humidity      |-> Num(75),
                 windSpeed     |-> Num(12),
                 windDirection |-> Str("NE"),
                 uvIndex       |-> Num(6),
                 condition     |-> "partly",
                 description   |-> "Partly Cloudy",
                 location      |-> "Pasir Ris Area (Offline)",
                 timestamp     |-> clock],
   forecast |-> << >>]

\* loadFallbackWeatherData: the value it assigns to this.weatherData
loadFallbackWeatherData ==
  [current  |-> [temperature   |-> Num(28),
                 humidity      |-> Num(75),
                 windSpeed     |-> Num(12),
                 windDirection |-> Str("NE"),
                 uvIndex       |-> Num(6),
                 condition     |-> "partly",
                 description   |-> "Partly Cloudy",
                 location      |-> "Pasir Ris Area (Offline)",
                 timestamp     |-> clock],
   forecast |-> generateFallbackForecast]

(***************************************************************************)
(* The forecast payload and getWeatherForecast's mapping of it.  A date is *)
(* a day number, day 0 a Monday.                                           *)
(***************************************************************************)
NoForecasts   == [t |-> "json", shape |-> "noforecasts"]
Forecasts(fs) == [t |-> "json", shape |-> "forecasts", forecasts |-> fs]

\* !forecastData?.items?.[0]?.forecasts is false
HasForecasts(d) == d.shape = "forecasts"

\* date.toLocaleDateString('en-SG', { weekday: 'short' })
Weekday(date) == <<"Mon", "Tue", "Wed", "Thu", "Fri", "Sat", "Sun">>[(date % 7) + 1]

\* the callback of forecasts.map throws on this entry: forecast.temperature
\* is undefined
EntryThrows(entry) == entry.shape # "day"

\* a plausible bug: the labels chosen by the position counted from 1
ForecastDay_labelsFromOne(forecast, i) ==
  LET index    == i
      dayName  == IF index = 0 THEN "Today"
                  ELSE IF index = 1 THEN "Tomorrow"
                  ELSE Weekday(forecast.date)
      tempHigh == forecast.temperature.high
      tempLow  == forecast.temperature.low
      avgTemp  == MathRound(Tenths((tempHigh.v + tempLow.v) \div 2))
  IN [day         |-> dayName,
      date        |-> forecast.date,
      temp        |-> avgTemp,
      tempHigh    |-> tempHigh,
      tempLow     |-> tempLow,
      condition   |-> getWeatherIconFromForecast(forecast.forecast),
      description |-> forecast.forecast,
      humidity    |-> forecast.relative_humidity,
      wind        |-> OrElse(forecast.wind, Str("Light")),
      status      |-> getCleanupStatusFromTemp(avgTemp, forecast.forecast)]

\* the callback of forecasts.map (i is the position counted from 1)
ForecastDay(forecast, i) ==
  LET index    == i - 1
      dayName  == IF index = 0 THEN "Today"
                  ELSE IF index = 1 THEN "Tomorrow"
                  ELSE Weekday(forecast.date)
      tempHigh == forecast.temperature.high
      tempLow  == forecast.temperature.low
      avgTemp  == MathRound(Tenths((tempHigh.v + tempLow.v) \div 2))
  IN [day         |-> dayName,
      date        |-> forecast.date,
      temp        |-> avgTemp,
      tempHigh    |-> tempHigh,
      tempLow     |-> tempLow,
      condition   |-> getWeatherIconFromForecast(forecast.forecast),
      description |-> forecast.forecast,
      humidity    |-> forecast.relative_humidity,
      wind        |-> OrElse(forecast.wind, Str("Light")),
      status      |-> getCleanupStatusFromTemp(avgTemp, forecast.forecast)]

\* a plausible bug: the catch returns no days instead of the fallback days
getWeatherForecast_emptyOnFailure(result) ==
  IF result.st = "rejected" THEN << >>
  ELSE IF ~HasForecasts(result.body) THEN << >>
  ELSE LET forecasts == result.body.forecasts
       IN IF \E i \in 1..Len(forecasts) : EntryThrows(forecasts[i])
          THEN << >>
          ELSE [i \in 1..Len(forecasts) |-> ForecastDay(forecasts[i], i)]

\* getWeatherForecast after its await, given what fetchNeaData settled with
getWeatherForecast(result) ==
  IF result.st = "rejected" THEN generateFallbackForecast
  ELSE IF ~HasForecasts(result.body) THEN generateFallbackForecast
  ELSE LET forecasts == result.body.forecasts
       IN IF \E i \in 1..Len(forecasts) : EntryThrows(forecasts[i])
          THEN generateFallbackForecast
          ELSE [i \in 1..Len(forecasts) |-> ForecastDay(forecasts[i], i)]

(***************************************************************************)
(* fetchNeaData.  A response is a network error (fetch itself rejects) or  *)
(* an HTTP response with its ok flag and its body; the body is JSON or not.*)
(***************************************************************************)
NotJson      == [t |-> "not-json"]
NetworkError == [kind |-> "network-error"]
HttpResponse(ok, body) == [kind |-> "http", ok |-> ok, body |-> body]

\* what the promise fetchNeaData returns settles with
fetchNeaData(response) ==
  IF response.kind = "network-error" THEN Rejected("TypeError: Failed to fetch")
  ELSE IF ~response.ok THEN Rejected("Error: HTTP status")
  ELSE IF response.body.t # "json" THEN Rejected("SyntaxError: not JSON")
  ELSE Resolved(response.body)

(***************************************************************************)
(* What the upstream source may answer.                                    *)
(***************************************************************************)
MeasurementEndpoints == {Endpoints[i] : i \in 1..Len(Endpoints)}

\* two readings per measurement kind, in tenths; none equals a default or a
\* value of the offline record
SampleA(e) ==
  CASE e = "air-temperature"   -> Tenths(314)
    [] e = "relative-humidity" -> Tenths(655)
    [] e = "wind-speed"        -> Tenths(85)
    [] e = "wind-direction"    -> Tenths(450)
    [] e = "uv-index"          -> Tenths(30)

SampleB(e) ==
  CASE e = "air-temperature"   -> Tenths(365)
    [] e = "relative-humidity" -> Tenths(925)
    [] e = "wind-speed"        -> Tenths(262)
    [] e = "wind-direction"    -> Tenths(2700)
    [] e = "uv-index"          -> Tenths(110)

MeasurementPayloads(e) ==
  { NoReadings,
    Readings(<< >>),
    Readings(<<Reading("S50", SampleA(e))>>),
    Readings(<<Reading("S107", SampleB(e)), Reading("S50", Null),
               Reading("S24", Tenths(0))>>),
    Readings(<<Reading("S107", SampleB(e))>>),
    Readings(<<Reading("S50", Null)>>) }

MeasurementResponses(e) ==
  {NetworkError, HttpResponse(FALSE, NotJson), HttpResponse(TRUE, NotJson)}
    \cup {HttpResponse(TRUE, p) : p \in MeasurementPayloads(e)}

DayEntries ==
  { [shape |-> "day", date |-> 0,
     temperature |-> [high |-> Num(33), low |-> Num(25)],
     forecast |-> txtThunderyShowers,
     relative_humidity |-> [t |-> "obj", low |-> 60, high |-> 95],
     wind |-> [t |-> "obj", low |-> 15, high |-> 25]],
    [shape |-> "day", date |-> 0,
     temperature |-> [high |-> Num(34), low |-> Num(25)],
     forecast |-> txtFairWarm,
     relative_humidity |-> [t |-> "obj", low |-> 55, high |-> 85],
     wind |-> Undefined],
    [shape |-> "no-temperature", date |-> 0, forecast |-> txtCloudy] }

\* the forecasts arrays of at most MaxDays entries, on consecutive dates
ForecastArrays ==
  UNION { { [i \in 1..n |-> [fs[i] EXCEPT !.date = 4 + i]] : fs \in [1..n -> DayEntries] }
          : n \in 0..MaxDays }

ForecastPayloads == {NoForecasts} \cup {Forecasts(fs) : fs \in ForecastArrays}

ForecastResponses ==
  {NetworkError, HttpResponse(FALSE, NotJson), HttpResponse(TRUE, NotJson)}
    \cup {HttpResponse(TRUE, p) : p \in ForecastPayloads}

(***************************************************************************)
(* The handlers of a weather-load cycle.  A handler runs to the next await *)
(* on the network: the continuations of settled promises run with it.      *)
(***************************************************************************)
Settled == [st |-> "settled"]      \* settled after its cycle ended: never read
Done    == [pc |-> "done"]

\* loadMockData's events (id, participants, userJoined of each)
MockEvents ==
  << [id |-> 1, participants |-> 24, userJoined |-> FALSE],
     [id |-> 2, participants |-> 32, userJoined |-> TRUE],
     [id |-> 3, participants |-> 18, userJoined |-> FALSE],
     [id |-> 4, participants |-> 29, userJoined |-> FALSE] >>

\* loadRealWeatherData of cycle c has returned: its caller goes on.
\* loadMockData assigns and renders the events; updateWeatherForLocation
\* only rewrites the location label of the page.
Resume(c) ==
  IF c = "initial"
  THEN /\ events' = MockEvents
       /\ mockData' = "done"
       /\ UNCHANGED <<currentLocation, reloads>>
  ELSE UNCHANGED callerVars

\* loadRealWeatherData's catch: loadFallbackWeatherData, which assigns
\* weatherData, renders and shows the offline notification
CatchAndFallBack(c, settled) ==
  /\ weatherData' = loadFallbackWeatherData
  /\ clock' = clock + 1
  /\ notified' = notified + 1
  /\ cycles' = [cycles EXCEPT ![c] = Done]
  /\ fetches' = [fetches EXCEPT ![c] = settled]
  /\ Resume(c)

\* a plausible bug: Promise.allSettled in the place of Promise.all, the
\* failures looked at only once all five fetches have settled
ReceiveMeasurement_allSettled(c, e, response) ==
  /\ fetches[c][e] = Pending
  /\ LET result  == fetchNeaData(response)
         settled == [fetches[c] EXCEPT ![e] = result]
     IN IF cycles[c].pc # "current" THEN
             /\ fetches' = [fetches EXCEPT ![c][e] = Settled]
             /\ UNCHANGED <<weatherData, cycles, notified, clock, callerVars>>
        ELSE IF \E x \in MeasurementEndpoints : settled[x].st \notin {"resolved", "rejected"}
        THEN /\ fetches' = [fetches EXCEPT ![c] = settled]
             /\ UNCHANGED <<weatherData, cycles, notified, clock, callerVars>>
        ELSE IF \E x \in MeasurementEndpoints : settled[x].st = "rejected" THEN
             CatchAndFallBack(c, settled)
        ELSE /\ cycles' = [cycles EXCEPT
                             ![c] = [pc |-> "forecast",
                                     current |-> getCurrentWeather(
                                        [x \in MeasurementEndpoints |-> settled[x].body])]]
             /\ fetches' = [fetches EXCEPT
                              ![c] = [settled EXCEPT ![ForecastEndpoint] = Pending]]
             /\ clock' = clock + 1
             /\ UNCHANGED <<weatherData, notified, callerVars>>
  /\ UNCHANGED pureVars

\* The response to one of the five measurement fetches of cycle c arrives.
\* fetchNeaData settles; Promise.all rejects with the first rejection and
\* resolves with the fifth resolution; getCurrentWeather then builds the
\* record and loadRealWeatherData goes on to getWeatherForecast, which
\* issues the forecast fetch.
ReceiveMeasurement(c, e, response) ==
  /\ fetches[c][e] = Pending
  /\ LET result  == fetchNeaData(response)
         settled == [fetches[c] EXCEPT ![e] = result]
     IN IF cycles[c].pc # "current" THEN
             /\ fetches' = [fetches EXCEPT ![c][e] = Settled]
             /\ UNCHANGED <<weatherData, cycles, notified, clock, callerVars>>
        ELSE IF result.st = "rejected" THEN
             CatchAndFallBack(c, settled)
        ELSE IF \A x \in MeasurementEndpoints : settled[x].st = "resolved" THEN
             LET current ==
                   getCurrentWeather([x \in MeasurementEndpoints |-> settled[x].body])
             IN IF current = Thrown THEN CatchAndFallBack(c, settled)
                ELSE /\ cycles' = [cycles EXCEPT
                                     ![c] = [pc |-> "forecast", current |-> current]]
                     /\ fetches' = [fetches EXCEPT
                                      ![c] = [settled EXCEPT ![ForecastEndpoint] = Pending]]
                     /\ clock' = clock + 1
                     /\ UNCHANGED <<weatherData, notified, callerVars>>
        ELSE /\ fetches' = [fetches EXCEPT ![c] = settled]
             /\ UNCHANGED <<weatherData, cycles, notified, clock, callerVars>>
  /\ UNCHANGED pureVars

\* a plausible bug: only the forecast of a record already installed is
\* replaced (this.weatherData.forecast = forecast)
ReceiveForecast_keepsCurrent(c, response) ==
  /\ cycles[c].pc = "forecast"
  /\ fetches[c][ForecastEndpoint] = Pending
  /\ LET result == fetchNeaData(response)
     IN /\ weatherData' = [current  |-> IF weatherData = NoData THEN cycles[c].current
                                        ELSE weatherData.current,
                           forecast |-> getWeatherForecast(result)]
        /\ fetches' = [fetches EXCEPT ![c][ForecastEndpoint] = result]
  /\ cycles' = [cycles EXCEPT ![c] = Done]
  /\ Resume(c)
  /\ UNCHANGED <<notified, clock, pureVars>>

\* The response to the forecast fetch of cycle c arrives: getWeatherForecast
\* returns the mapped days or the fallback forecast, and loadRealWeatherData
\* assigns weatherData and renders.
ReceiveForecast(c, response) ==
  /\ cycles[c].pc = "forecast"
  /\ fetches[c][ForecastEndpoint] = Pending
  /\ LET result == fetchNeaData(response)
     IN /\ weatherData' = [current  |-> cycles[c].current,
                           forecast |-> getWeatherForecast(result)]
        /\ fetches' = [fetches EXCEPT ![c][ForecastEndpoint] = result]
  /\ cycles' = [cycles EXCEPT ![c] = Done]
  /\ Resume(c)
  /\ UNCHANGED <<notified, clock, pureVars>>

\* The server will never answer the fetch of endpoint e of cycle c.  fetch
\* is called without a signal and no timer is set: nothing settles it.
Stall(c, e) ==
  /\ fetches[c][e] = Pending
  /\ fetches' = [fetches EXCEPT ![c][e] = Stalled]
  /\ UNCHANGED <<weatherData, cycles, notified, clock, callerVars, pureVars>>

(***************************************************************************)
(* The initial load alone: the cycle loadMockData starts at construction.  *)
(***************************************************************************)
LoadInit == AppInit /\ PureIdle

LoadReceiveMeasurement ==
  \E e \in MeasurementEndpoints : \E r \in MeasurementResponses(e) :
     ReceiveMeasurement("initial", e, r)

LoadReceiveForecast ==
  \E r \in ForecastResponses : ReceiveForecast("initial", r)

LoadStall ==
  \E e \in AllEndpoints : Stall("initial", e)

LoadNext == LoadReceiveMeasurement \/ LoadReceiveForecast \/ LoadStall

LoadSpec == LoadInit /\ [][LoadNext]_vars

\* the network answers every fetch it has not stalled, and the event loop runs
\* the handler of every response
LoadFairSpec ==
  LoadSpec /\ WF_vars(LoadReceiveMeasurement) /\ WF_vars(LoadReceiveForecast)

(***************************************************************************)
(* The whole application: the initial load, a reload when the position is  *)
(* acquired, and the event bookkeeping.  Reloads reuse one activation      *)
(* record, so at most one reload is in flight beside the initial load.     *)
(***************************************************************************)
Position == [t |-> "obj", lat |-> 1, lng |-> 103]

\* requestLocation: the success callback of getCurrentPosition.  It assigns
\* currentLocation and calls updateWeatherForLocation, which calls
\* loadRealWeatherData: getCurrentWeather issues the five fetches.
LocationAcquired ==
  /\ reloads < MaxReloads
  /\ cycles["reload"].pc \in {"idle", "done"}
  /\ reloads' = reloads + 1
  /\ currentLocation' = Position
  /\ cycles' = [cycles EXCEPT !["reload"] = [pc |-> "current"]]
  /\ fetches' = [fetches EXCEPT !["reload"] =
                   [e \in AllEndpoints |-> IF e = ForecastEndpoint THEN Idle ELSE Pending]]
  /\ UNCHANGED <<weatherData, notified, clock, mockData, events, pureVars>>

\* this.events.find(e => e.id === eventId): its index, 0 for undefined
FindEvent(eventId) ==
  FirstIndex({i \in 1..Len(events) : events[i].id = eventId})

\* a plausible bug: joinEvent without its test of userJoined
JoinEvent_noGuard(eventId) ==
  /\ LET i == FindEvent(eventId)
     IN IF i # 0
        THEN events' = [events EXCEPT ![i].userJoined = TRUE,
                                      ![i].participants = @ + 1]
        ELSE UNCHANGED events
  /\ UNCHANGED <<weatherData, cycles, fetches, notified, clock, currentLocation,
                 mockData, reloads, pureVars>>

\* joinEvent(eventId)
JoinEvent(eventId) ==
  /\ LET i == FindEvent(eventId)
     IN IF i # 0 /\ ~events[i].userJoined
        THEN events' = [events EXCEPT ![i].userJoined = TRUE,
                                      ![i].participants = @ + 1]
        ELSE UNCHANGED events
  /\ UNCHANGED <<weatherData, cycles, fetches, notified, clock, currentLocation,
                 mockData, reloads, pureVars>>

\* leaveEvent(eventId)
LeaveEvent(eventId) ==
  /\ LET i == FindEvent(eventId)
     IN IF i # 0 /\ events[i].userJoined
        THEN events' = [events EXCEPT ![i].userJoined = FALSE,
                                      ![i].participants = IF @ - 1 > 0 THEN @ - 1 ELSE 0]
        ELSE UNCHANGED events
  /\ UNCHANGED <<weatherData, cycles, fetches, notified, clock, currentLocation,
                 mockData, reloads, pureVars>>

\* the answers of the upstream source and the event ids tried beside two
\* overlapping cycles: every measurement fetch may succeed, the temperature
\* fetch with either of two payloads or fail, before or after any of the
\* four other answers
OverlapMeasurementResponses(e) ==
  {HttpResponse(TRUE, Readings(<<Reading("S50", SampleA(e))>>))}
    \cup (IF e = "air-temperature"
          THEN {HttpResponse(TRUE, Readings(<<Reading("S50", SampleB(e))>>)),
                HttpResponse(FALSE, NotJson)}
          ELSE {})

OverlapForecastResponses ==
  {NetworkError,
   HttpResponse(TRUE, NoForecasts),
   HttpResponse(TRUE, Forecasts(<<[shape |-> "day", date |-> 5,
                                   temperature |-> [high |-> Num(33), low |-> Num(25)],
                                   forecast |-> txtThunderyShowers,
                                   relative_humidity |-> [t |-> "obj", low |-> 60, high |-> 95],
                                   wind |-> [t |-> "obj", low |-> 15, high |-> 25]]>>))}

EventIds == {1, 2, 5}

Init == AppInit /\ PureIdle

Next ==
  \/ \E c \in CycleIds : \E e \in MeasurementEndpoints :
        \E r \in OverlapMeasurementResponses(e) : ReceiveMeasurement(c, e, r)
  \/ \E c \in CycleIds : \E r \in OverlapForecastResponses : ReceiveForecast(c, r)
  \/ LocationAcquired
  \/ \E id \in EventIds : JoinEvent(id)
  \/ \E id \in EventIds : LeaveEvent(id)

Spec == Init /\ [][Next]_vars

\* the measurement fetches of cycle c that resolved, and their payloads
ResolvedEndpoints(c) == {e \in MeasurementEndpoints : fetches[c][e].st = "resolved"}

AllResolved(c) == ResolvedEndpoints(c) = MeasurementEndpoints

\* some measurement fetch of cycle c failed with a network error or a
\* non-success HTTP status
FetchFailed(c) ==
  \E e \in MeasurementEndpoints :
     /\ fetches[c][e].st = "rejected"
     /\ fetches[c][e].error \in {"TypeError: Failed to fetch", "Error: HTTP status"}

\* the numbers a resolved measurement fetch of cycle c delivered, rounded
FetchedNumbers(c) ==
  UNION { { MathRound(fetches[c][e].body.readings[j].value) :
              j \in { k \in 1..Len(fetches[c][e].body.readings) :
                        fetches[c][e].body.readings[k].value # Null } }
          : e \in { x \in ResolvedEndpoints(c) : HasReadings(fetches[c][x].body) } }

\* C1: when one of the five measurement fetches of a cycle fails with a network
\* error or a non-success status, the cycle ends with the static offline
\* record (28, 75, 12, 'NE', 6, offline-marked label) as the current
\* conditions, and no field of it is a value one of the other fetches delivered.
C1_FailureInstallsOfflineRecord ==
  (cycles["initial"] = Done /\ FetchFailed("initial")) =>
     /\ weatherData # NoData
     /\ weatherData.current.temperature = Num(28)
     /\ weatherData.current.humidity = Num(75)
     /\ weatherData.current.windSpeed = Num(12)
     /\ weatherData.current.windDirection = Str("NE")
     /\ weatherData.current.uvIndex = Num(6)
     /\ weatherData.current.location = "Pasir Ris Area (Offline)"
     /\ {weatherData.current.temperature, weatherData.current.humidity,
         weatherData.current.windSpeed, weatherData.current.windDirection,
         weatherData.current.uvIndex} \cap FetchedNumbers("initial") = {}

\* C1's case: four fetches delivered readings and the UV fetch then came back
\* with a non-success status.
C1_Witness ==
  /\ cycles["initial"] = Done
  /\ \A e \in MeasurementEndpoints \ {"uv-index"} :
        fetches["initial"][e] = Resolved(Readings(<<Reading("S50", SampleA(e))>>))
  /\ fetches["initial"]["uv-index"] = Rejected("Error: HTTP status")
  /\ weatherData.current.location = "Pasir Ris Area (Offline)"

\* C2: a load cycle in flight ends, also when one of its fetches never gets
\* a response (the documented 10-second timeout fails that fetch).
C2_CycleTerminates ==
  \A c \in CycleIds : (cycles[c].pc \in {"current", "forecast"}) ~> (cycles[c] = Done)

\* some measurement fetch of cycle c succeeded with JSON that has no
\* items/readings
MalformedPayload(c) ==
  \E e \in MeasurementEndpoints : fetches[c][e] = Resolved(NoReadings)

\* C3 as stated: a success status with a payload without items/readings fails
\* the cycle like a network failure, and the record is the offline-marked one.
C3_MalformedIsFailure ==
  (cycles["initial"] = Done /\ MalformedPayload("initial")) =>
     weatherData.current.location = "Pasir Ris Area (Offline)"

\* the field of the current record that endpoint e feeds, and its default
FieldOf(current, e) ==
  CASE e = "air-temperature"   -> current.temperature
    [] e = "relative-humidity" -> current.humidity
    [] e = "wind-speed"        -> current.windSpeed
    [] e = "wind-direction"    -> current.windDirection
    [] e = "uv-index"          -> current.uvIndex

DefaultOf(e) ==
  CASE e = "air-temperature"   -> Num(28)
    [] e = "relative-humidity" -> Num(70)
    [] e = "wind-speed"        -> Num(12)
    [] e = "wind-direction"    -> Str("NE")
    [] e = "uv-index"          -> Num(6)

\* C3 as amended: when all five fetches succeed with JSON and some payload has
\* no items/readings, the cycle is not failed: the record is labelled live
\* and carries the default of every kind whose payload has no readings.
C3_MalformedGivesLiveDefaults ==
  (cycles["initial"] = Done /\ AllResolved("initial") /\ MalformedPayload("initial")) =>
     /\ weatherData.current.location = "Pasir Ris Area"
     /\ \A e \in MeasurementEndpoints :
           fetches["initial"][e] = Resolved(NoReadings) =>
              FieldOf(weatherData.current, e) = DefaultOf(e)

\* C3's case: the humidity payload has no readings, the other four report S50.
C3_Witness ==
  /\ cycles["initial"] = Done
  /\ fetches["initial"]["relative-humidity"] = Resolved(NoReadings)
  /\ \A e \in MeasurementEndpoints \ {"relative-humidity"} :
        fetches["initial"][e] = Resolved(Readings(<<Reading("S50", SampleA(e))>>))
  /\ weatherData.current.location = "Pasir Ris Area"
  /\ weatherData.current.humidity = Num(70)
  /\ weatherData.current.temperature = Num(31)

\* C4: once loadRealWeatherData has completed, whatever the six fetches came
\* back with, weatherData is non-null with a current record and a non-empty
\* forecast.
C4_AlwaysPopulated ==
  cycles["initial"] = Done =>
     /\ weatherData # NoData
     /\ weatherData.current.location \in {"Pasir Ris Area", "Pasir Ris Area (Offline)"}
     /\ Len(weatherData.forecast) > 0

\* C8: whenever weatherData is non-null, temperature, humidity, windSpeed and
\* uvIndex of its current record are numbers.
C8_NumericFieldsPopulated ==
  weatherData # NoData =>
     /\ IsNumber(weatherData.current.temperature)
     /\ IsNumber(weatherData.current.humidity)
     /\ IsNumber(weatherData.current.windSpeed)
     /\ IsNumber(weatherData.current.uvIndex)

\* C8's case: a live record built from a temperature payload whose chosen
\* station reports 0, a humidity payload without readings, an empty wind
\* list, a direction payload without the chosen station and an all-null UV
\* payload.
C8_Witness ==
  /\ weatherData # NoData
  /\ weatherData.current.location = "Pasir Ris Area"
  /\ fetches["initial"]["air-temperature"] =
        Resolved(Readings(<<Reading("S107", Tenths(365)), Reading("S50", Null),
                            Reading("S24", Tenths(0))>>))
  /\ fetches["initial"]["relative-humidity"] = Resolved(NoReadings)
  /\ fetches["initial"]["wind-speed"] = Resolved(Readings(<< >>))
  /\ fetches["initial"]["wind-direction"] =
        Resolved(Readings(<<Reading("S107", Tenths(2700))>>))
  /\ fetches["initial"]["uv-index"] = Resolved(Readings(<<Reading("S50", Null)>>))
  /\ weatherData.current.temperature = Num(28)
  /\ weatherData.current.uvIndex = Num(6)

\* the forecast fetch of cycle c resolved with a payload whose forecasts
\* array holds day entries only
WellFormedForecast(c) ==
  /\ fetches[c][ForecastEndpoint].st = "resolved"
  /\ HasForecasts(fetches[c][ForecastEndpoint].body)
  /\ \A i \in 1..Len(fetches[c][ForecastEndpoint].body.forecasts) :
        fetches[c][ForecastEndpoint].body.forecasts[i].shape = "day"

WeekdayNames == {"Mon", "Tue", "Wed", "Thu", "Fri", "Sat", "Sun"}

\* C14: a forecast fetch that succeeds with n well-formed day entries gives n
\* forecast days in the order of the payload, the first labelled Today, the
\* second Tomorrow, every later one with the weekday of its date, each with
\* the high and low temperature of its entry.
C14_ForecastDaysFollowPayload ==
  (cycles["initial"] = Done /\ WellFormedForecast("initial")) =>
     LET fs == fetches["initial"][ForecastEndpoint].body.forecasts
     IN /\ Len(weatherData.forecast) = Len(fs)
        /\ \A i \in 1..Len(fs) :
              /\ weatherData.forecast[i].date = fs[i].date
              /\ weatherData.forecast[i].description = fs[i].forecast
              /\ weatherData.forecast[i].tempHigh = fs[i].temperature.high
              /\ weatherData.forecast[i].tempLow = fs[i].temperature.low
              /\ weatherData.forecast[i].day =
                    (IF i = 1 THEN "Today"
                     ELSE IF i = 2 THEN "Tomorrow"
                     ELSE <<"Mon", "Tue", "Wed", "Thu", "Fri", "Sat", "Sun">>
                             [(fs[i].date % 7) + 1])
              /\ i > 2 => weatherData.forecast[i].day \in WeekdayNames

\* C14's case: three day entries, the third labelled with its weekday.
C14_Witness ==
  /\ cycles["initial"] = Done
  /\ WellFormedForecast("initial")
  /\ Len(fetches["initial"][ForecastEndpoint].body.forecasts) = 3
  /\ Len(weatherData.forecast) = 3
  /\ weatherData.forecast[1].day = "Today"
  /\ weatherData.forecast[2].day = "Tomorrow"
  /\ weatherData.forecast[3].day = "Mon"
  /\ weatherData.forecast[1].description = txtFairWarm
  /\ weatherData.forecast[3].description = txtThunderyShowers
  /\ weatherData.forecast[3].tempHigh = Num(33)

\* what the forecast fetch settled with is a failure of getWeatherForecast:
\* the fetch rejected, or its payload has no forecasts array
ForecastFailed(slot) ==
  \/ slot.st = "rejected"
  \/ slot.st = "resolved" /\ ~HasForecasts(slot.body)

\* the fixed fallback days: label, symbol, temperature and level of each
FixedDays ==
  << <<"Today", "sun", 28, "perfect">>, <<"Tomorrow", "partly", 26, "good">>,
     <<"Wednesday", "rain", 24, "ok">>, <<"Thursday", "sun", 30, "perfect">>,
     <<"Friday", "partly", 27, "good">>, <<"Saturday", "sun", 29, "perfect">>,
     <<"Sunday", "partly", 25, "good">> >>

IsFixedFallback(forecast) ==
  /\ Len(forecast) = Len(FixedDays)
  /\ \A i \in 1..Len(FixedDays) :
        /\ forecast[i].day = FixedDays[i][1]
        /\ forecast[i].condition = FixedDays[i][2]
        /\ forecast[i].temp = Num(FixedDays[i][3])
        /\ forecast[i].tempHigh = Num(FixedDays[i][3] + 2)
        /\ forecast[i].tempLow = Num(FixedDays[i][3] - 3)
        /\ forecast[i].status = FixedDays[i][4]

\* C17: every execution of getWeatherForecast whose fetch fails or whose
\* payload has no forecasts array returns the fixed seven fallback days, the
\* same in every cycle; loadRealWeatherData installs them.
C17_FailedForecastIsFallback ==
  [][\A c \in CycleIds :
        (/\ cycles[c].pc = "forecast"
         /\ cycles'[c] = Done
         /\ ForecastFailed(fetches'[c][ForecastEndpoint]))
        => (IsFixedFallback(weatherData'.forecast) /\ Len(weatherData'.forecast) = 7)]_vars

\* C17's case: the forecast fetch of the initial load met a network error,
\* the one of the reload a payload without forecasts, and the days installed
\* are the fixed ones both times.
C17_Witness ==
  /\ cycles["initial"] = Done
  /\ cycles["reload"] = Done
  /\ fetches["initial"][ForecastEndpoint] = Rejected("TypeError: Failed to fetch")
  /\ fetches["reload"][ForecastEndpoint] = Resolved(NoForecasts)
  /\ weatherData.current.location = "Pasir Ris Area"
  /\ IsFixedFallback(weatherData.forecast)

\* C18: once the reload (the cycle started later) has installed its result,
\* the completion of the initial load (the cycle started earlier) leaves
\* weatherData as the reload set it.
C18_StaleResultDiscarded ==
  [][(/\ cycles["reload"] = Done
      /\ cycles["initial"].pc \in {"current", "forecast"}
      /\ cycles'["initial"] = Done) => weatherData' = weatherData]_vars

\* a record without its timestamp
WithoutTimestamp(r) == [f \in (DOMAIN r) \ {"timestamp"} |-> r[f]]

\* the payloads the five fetches of cycle c resolved with
Bodies(c) == [e \in MeasurementEndpoints |-> fetches[c][e].body]

NumericEndpoints == MeasurementEndpoints \ {"wind-direction"}

\* payload d has a reading whose value is not null
HasValue(d) ==
  HasReadings(d) /\ \E i \in 1..Len(d.readings) : d.readings[i].value # Null

\* the reading of payload d that the preferred list selects among d's own
\* readings: a preferred station with a value, else the first with a value
OwnReading(d) ==
  LET withValue(id) == {i \in 1..Len(d.readings) :
                          d.readings[i].station_id = id /\ d.readings[i].value # Null}
      preferred == {k \in 1..Len(PreferredStations) : withValue(PreferredStations[k]) # {}}
      anyValue  == {i \in 1..Len(d.readings) : d.readings[i].value # Null}
  IN IF preferred # {}
     THEN d.readings[FirstIndex(withValue(PreferredStations[FirstIndex(preferred)]))].value
     ELSE d.readings[FirstIndex(anyValue)].value

\* the initial load installed a live record from five resolved payloads
LiveRecordInstalled ==
  /\ cycles["initial"] = Done
  /\ AllResolved("initial")
  /\ weatherData # NoData
  /\ weatherData.current.location = "Pasir Ris Area"

\* C21: every measurement kind is resolved on its own readings: when the
\* payload of a kind has a reading with a value, the field of that kind is
\* that payload's resolved reading (rounded), not a default, whichever
\* stations the temperature payload reports.  Stated for readings other than
\* 0, the reading C22 is about.
C21_EachKindResolvedOnItsOwn ==
  LiveRecordInstalled =>
     \A e \in NumericEndpoints :
        (/\ HasValue(fetches["initial"][e].body)
         /\ OwnReading(fetches["initial"][e].body) # Tenths(0))
        => FieldOf(weatherData.current, e) =
              MathRound(OwnReading(fetches["initial"][e].body))

\* the reading of payload d at the station getCurrentWeather resolved
ReadingAt(d, stationId) ==
  IF ~HasReadings(d) THEN Null
  ELSE LET at == {i \in 1..Len(d.readings) : d.readings[i].station_id = stationId}
       IN IF at = {} THEN Null ELSE d.readings[FirstIndex(at)].value

\* C22: a default (28, 70, 12, 6) is in a live record only for a kind none of
\* whose readings has a value, and a resolved reading that is a number v,
\* v = 0 included, gives the field round(v).
C22_DefaultOnlyWithoutValue ==
  LiveRecordInstalled =>
     \A e \in NumericEndpoints :
        LET d == fetches["initial"][e].body
            v == ReadingAt(d, findNearestStation(
                                 fetches["initial"]["air-temperature"].body,
                                 PreferredStations))
        IN /\ FieldOf(weatherData.current, e) = DefaultOf(e) => ~HasValue(d)
           /\ IsNumber(v) => FieldOf(weatherData.current, e) = MathRound(v)

\* a measurement fetch of cycle c has settled, one way or the other
Completed(slot) == slot.st \in {"resolved", "rejected"}

\* C23 as stated: no result, live or fallback, is installed before all five
\* measurement fetches of the cycle have completed.
C23_InstalledAfterAllFive ==
  [][weatherData' # weatherData =>
        \A e \in MeasurementEndpoints : Completed(fetches'["initial"][e])]_vars

\* the measurement fetches of cycle c that rejected, in a fetches value f
RejectedIn(f, c) == {e \in MeasurementEndpoints : f[c][e].st = "rejected"}

\* C23 as amended: a live record is installed only after all five measurement
\* fetches have succeeded; the fallback record is installed by the first of
\* the five to fail, also while others are still in flight.
C23_LiveAfterAllFiveFallbackAtFirstFailure ==
  [][weatherData' # weatherData =>
        IF weatherData'.current.location = "Pasir Ris Area"
        THEN \A e \in MeasurementEndpoints : fetches'["initial"][e].st = "resolved"
        ELSE /\ RejectedIn(fetches, "initial") = {}
             /\ Cardinality(RejectedIn(fetches', "initial")) = 1]_vars

\* C23's case: the fallback record installed by the failure of the humidity
\* fetch while the wind and UV fetches are still in flight.
C23_Witness ==
  /\ cycles["initial"] = Done
  /\ weatherData # NoData
  /\ weatherData.current.location = "Pasir Ris Area (Offline)"
  /\ fetches["initial"]["relative-humidity"] = Rejected("TypeError: Failed to fetch")
  /\ fetches["initial"]["air-temperature"].st = "resolved"
  /\ fetches["initial"]["wind-speed"] = Pending
  /\ fetches["initial"]["uv-index"] = Pending

\* C24 as stated: the forecast does not depend on the measurement fetches.
\* After a measurement failure the forecast fetch has still been issued, and
\* a forecast failure leaves the record of five successful fetches live.
C24_ForecastIndependent ==
  /\ (cycles["initial"] = Done /\ RejectedIn(fetches, "initial") # {}) =>
        fetches["initial"][ForecastEndpoint].st # "idle"
  /\ (/\ cycles["initial"] = Done
      /\ AllResolved("initial")
      /\ ForecastFailed(fetches["initial"][ForecastEndpoint])) =>
        weatherData.current.location = "Pasir Ris Area"

\* C24 as amended: the forecast fetch is issued only after the five
\* measurement fetches succeeded.  After a measurement failure no forecast
\* fetch is issued and the fixed fallback days are installed with the
\* offline record; a forecast failure leaves the current record live, with
\* the fixed fallback days.
C24_ForecastAfterCurrent ==
  /\ (fetches["initial"][ForecastEndpoint].st # "idle") => AllResolved("initial")
  /\ (cycles["initial"] = Done /\ RejectedIn(fetches, "initial") # {}) =>
        /\ fetches["initial"][ForecastEndpoint].st = "idle"
        /\ weatherData.current.location = "Pasir Ris Area (Offline)"
        /\ IsFixedFallback(weatherData.forecast)
  /\ (/\ cycles["initial"] = Done
      /\ AllResolved("initial")
      /\ ForecastFailed(fetches["initial"][ForecastEndpoint])) =>
        /\ weatherData.current.location = "Pasir Ris Area"
        /\ IsFixedFallback(weatherData.forecast)

\* C24's case: the UV fetch failed after the other four delivered readings;
\* no forecast fetch was issued and the fallback days are installed.
C24_Witness ==
  /\ cycles["initial"] = Done
  /\ \A e \in MeasurementEndpoints \ {"uv-index"} : fetches["initial"][e].st = "resolved"
  /\ fetches["initial"]["uv-index"] = Rejected("TypeError: Failed to fetch")
  /\ fetches["initial"][ForecastEndpoint] = Idle
  /\ IsFixedFallback(weatherData.forecast)
  /\ weatherData.current.location = "Pasir Ris Area (Offline)"

\* the sample triggers no rule but a temperature rule: humidity, wind and UV
\* are below every threshold and the forecast text has no keyword
OnlyTemperatureMatters ==
  /\ sample # Unset
  /\ Lt(sample.humidity, 85)
  /\ Lt(sample.windSpeed, 20)
  /\ Le(sample.uvIndex, 9)
  /\ ~HasThunder(sample.forecast)
  /\ ~HasRain(sample.forecast)

\* C25: the two classifiers are one rule set: classifying the same sample,
\* whose humidity, wind, UV and text trigger no rule, first with one and then
\* with the other gives the same level, at every temperature.
C25_ClassifiersAgree ==
  [][(/\ OnlyTemperatureMatters
      /\ Classified
      /\ verdict'.by \in {"getCleanupStatus", "getCleanupStatusFromTemp"}
      /\ verdict'.by # verdict.by) => verdict'.level = verdict.level]_vars

\* C26: getWeatherDescription is the first match of Hot (above 32), Cool
\* (below 24), Humid (humidity above 80), Windy (wind above 20), otherwise
\* Pleasant.
C26_DescriptionLadder ==
  (verdict # Unset /\ verdict.by = "getWeatherDescription") =>
     LET hot   == Gt(sample.temperature, 32)
         cool  == Lt(sample.temperature, 24)
         humid == Gt(sample.humidity, 80)
         windy == Gt(sample.windSpeed, 20)
     IN /\ hot => verdict.description = "Hot"
        /\ (~hot /\ cool) => verdict.description = "Cool"
        /\ (~hot /\ ~cool /\ humid) => verdict.description = "Humid"
        /\ (~hot /\ ~cool /\ ~humid /\ windy) => verdict.description = "Windy"
        /\ (~hot /\ ~cool /\ ~humid /\ ~windy) => verdict.description = "Pleasant"
        /\ verdict.description = "Windy" => (~hot /\ ~cool /\ ~humid)

\* C26's case: a hot, humid and windy reading, described as Hot.
C26_Witness ==
  /\ verdict # Unset
  /\ verdict.by = "getWeatherDescription"
  /\ sample.temperature = Num(34)
  /\ sample.humidity = Num(91)
  /\ sample.windSpeed = Num(26)
  /\ verdict.description = "Hot"

\* payload d has readings and the value of every one of them is null
AllNull(d) ==
  /\ HasReadings(d)
  /\ Len(d.readings) > 0
  /\ \A i \in 1..Len(d.readings) : d.readings[i].value = Null

\* all five fetches of cycle c succeeded and some kind has no station data
NoStationData(c) ==
  /\ AllResolved(c)
  /\ \E e \in MeasurementEndpoints : AllNull(fetches[c][e].body)

\* C27 as stated: when all five fetches succeed and every station's value
\* is null for some kind, the outcome is that of a network failure: the
\* offline-marked record and a notification.
C27_NoStationDataIsFailure ==
  (cycles["initial"] = Done /\ NoStationData("initial")) =>
     /\ weatherData.current.location = "Pasir Ris Area (Offline)"
     /\ notified > 0

\* C27 as amended: the record is labelled live, nobody is notified, and the
\* kind without station data carries its default.
C27_NoStationDataGivesLiveDefault ==
  (cycles["initial"] = Done /\ NoStationData("initial")) =>
     /\ weatherData.current.location = "Pasir Ris Area"
     /\ notified = 0
     /\ \A e \in MeasurementEndpoints :
           AllNull(fetches["initial"][e].body) =>
              FieldOf(weatherData.current, e) = DefaultOf(e)

\* C27's case: the UV payload reports S50 with a null value, the other four
\* report S50 with a reading.
C27_Witness ==
  /\ cycles["initial"] = Done
  /\ fetches["initial"]["uv-index"] = Resolved(Readings(<<Reading("S50", Null)>>))
  /\ \A e \in MeasurementEndpoints \ {"uv-index"} :
        fetches["initial"][e] = Resolved(Readings(<<Reading("S50", SampleA(e))>>))
  /\ weatherData.current.location = "Pasir Ris Area"
  /\ weatherData.current.uvIndex = Num(6)
  /\ notified = 0

\* the days of forecast are those getWeatherForecast owes to what the
\* forecast fetch settled with: the payload's days, or the fixed fallback
ForecastOf(forecast, slot) ==
  IF slot.st = "resolved" /\ HasForecasts(slot.body)
     /\ \A i \in 1..Len(slot.body.forecasts) : slot.body.forecasts[i].shape = "day"
  THEN /\ Len(forecast) = Len(slot.body.forecasts)
       /\ \A i \in 1..Len(forecast) :
             /\ forecast[i].date = slot.body.forecasts[i].date
             /\ forecast[i].description = slot.body.forecasts[i].forecast
  ELSE IsFixedFallback(forecast)

\* C28: weatherData is replaced as a whole, by one cycle: every step that
\* changes it completes one cycle and installs either the record that cycle
\* built with the forecast of that cycle's forecast fetch, or the offline
\* record with the fixed fallback days.
C28_PairFromOneCycle ==
  [][weatherData' # weatherData =>
        \E c \in CycleIds :
           /\ cycles[c].pc \in {"current", "forecast"}
           /\ cycles'[c] = Done
           /\ IF cycles[c].pc = "forecast"
              THEN /\ weatherData'.current = cycles[c].current
                   /\ ForecastOf(weatherData'.forecast, fetches'[c][ForecastEndpoint])
              ELSE /\ weatherData'.current.location = "Pasir Ris Area (Offline)"
                   /\ weatherData'.current.timestamp = clock
                   /\ IsFixedFallback(weatherData'.forecast)]_vars

\* C28's case: the reload installed its record and the payload's day, then
\* the initial load, whose record is older, replaced the pair by its own
\* record and the fallback days of its failed forecast fetch.
C28_Witness ==
  /\ cycles["initial"] = Done
  /\ cycles["reload"] = Done
  /\ AllResolved("initial")
  /\ AllResolved("reload")
  /\ fetches["initial"][ForecastEndpoint].st = "rejected"
  /\ fetches["reload"][ForecastEndpoint].st = "resolved"
  /\ HasForecasts(fetches["reload"][ForecastEndpoint].body)
  /\ clock = 2
  /\ weatherData.current.timestamp = 0
  /\ IsFixedFallback(weatherData.forecast)

\* participants minus one if the user has joined
Others(event) == event.participants - (IF event.userJoined THEN 1 ELSE 0)

\* C29: whatever joinEvent and leaveEvent calls are made, with whatever ids,
\* the participants of every event other than the user stay what loadMockData
\* set and participants is never negative; a call changes one event, flips
\* its userJoined and moves participants by one with it, or changes nothing.
C29_ParticipantsFollowMembership ==
  /\ [](\A i \in 1..Len(events) :
          /\ events[i].id = MockEvents[i].id
          /\ Others(events[i]) = Others(MockEvents[i])
          /\ events[i].participants >= 0)
  /\ [][(events # << >> /\ events' # events) =>
          \E i \in 1..Len(events) :
             /\ \A j \in 1..Len(events) : j # i => events'[j] = events[j]
             /\ events'[i].userJoined # events[i].userJoined
             /\ events'[i].participants =
                   events[i].participants + (IF events'[i].userJoined THEN 1 ELSE -1)]_vars

\* C29's case: the user has joined event 1 (24 participants before) and left
\* event 2 (32 participants before).
C29_Witness ==
  /\ Len(events) = 4
  /\ events[1].userJoined
  /\ events[1].participants = 25
  /\ ~events[2].userJoined
  /\ events[2].participants = 31

\* C30 as stated: while a weather fetch of the initial load is pending, the
\* event list is empty.
C30_EventsEmptyWhileFetchPending ==
  (\E e \in AllEndpoints : fetches["initial"][e] = Pending) => events = << >>

\* C30 as amended: while the initial load cycle has not finished, the event
\* list is empty; the events are assigned when the cycle finishes, also when
\* fetches that Promise.all no longer waits for are still pending.
C30_EventsEmptyUntilCycleEnds ==
  /\ cycles["initial"] # Done => (events = << >> /\ mockData = "awaiting")
  /\ cycles["initial"] = Done => (Len(events) = 4 /\ mockData = "done")

\* C30's case: the reload has finished and installed its result while the
\* initial load still waits for its forecast; the event list is still empty.
C30_Witness ==
  /\ cycles["reload"] = Done
  /\ cycles["initial"].pc = "forecast"
  /\ fetches["initial"][ForecastEndpoint] = Pending
  /\ weatherData # NoData
  /\ events = << >>

====
